---- MODULE Spec2Model ----
(***************************************************************************)
(* Model of the Zog.js component plugin (src/src/zog-component-plugin.js). *)
(*                                                                         *)
(* Strings are sequences of one-character strings, so that toLowerCase,    *)
(* startsWith, slice, trim and split are computed as the code computes     *)
(* them.  The DOM is a heap of nodes (index = node identity).  The hook    *)
(* and the host compiler thread a "world" record through their calls.      *)
(***************************************************************************)
EXTENDS Integers, Sequences, FiniteSets, TLC

VARIABLES
    componentRegistry,  \* Map: lower-cased name -> options           (line 18)
    world,           \* DOM heap, instances, effects and logs
    phase,              \* "setup" before the host compiles the document, then "live"
    lastOp,             \* what the last operation was and how it ended
    others              \* The Maps of the further installations of the plugin (line 18)

vars == <<componentRegistry, world, phase, lastOp, others>>

----------------------------------------------------------------------------
(* Strings *)

\* String.prototype.toLowerCase on one character (the letters the inputs use).
LowerChar(c) ==
    CASE c = "A" -> "a" [] c = "B" -> "b" [] c = "C" -> "c" [] c = "Z" -> "z"
      [] OTHER -> c

toLowerCase(s) == [i \in 1..Len(s) |-> LowerChar(s[i])]

startsWith(s, p) == Len(s) >= Len(p) /\ SubSeq(s, 1, Len(p)) = p

slice(s, n) == SubSeq(s, n + 1, Len(s))

IsSpace(c) == c \in {" ", "\t", "\n"}

RECURSIVE trimStart(_)
trimStart(s) == IF s # <<>> /\ IsSpace(Head(s)) THEN trimStart(Tail(s)) ELSE s

RECURSIVE trimEnd(_)
trimEnd(s) ==
    IF s # <<>> /\ IsSpace(s[Len(s)]) THEN trimEnd(SubSeq(s, 1, Len(s) - 1)) ELSE s

\* String.prototype.split(sep) for a one-character separator: the pieces
\* between separators, empty pieces kept ("" splits to [""]).
RECURSIVE splitFrom(_, _, _)
splitFrom(s, sep, cur) ==
    IF s = <<>> THEN <<cur>>
    ELSE IF Head(s) = sep THEN <<cur>> \o splitFrom(Tail(s), sep, <<>>)
    ELSE splitFrom(Tail(s), sep, Append(cur, Head(s)))

split(s, sep) == splitFrom(s, sep, <<>>)

SeqToSet(s) == {s[i] : i \in 1..Len(s)}

Z_PREFIX == <<"z", "-">>
SLOT == <<"s", "l", "o", "t">>
CLASS == <<"c", "l", "a", "s", "s">>
STYLE == <<"s", "t", "y", "l", "e">>
EMIT == <<"e", "m", "i", "t">>

----------------------------------------------------------------------------
(* Registry *)

\* !options.template: a missing template and the empty string are falsy.
TemplateFalsy(options) == ~options.hasTemplate \/ options.template = <<>>

MapSet(m, k, v) == [x \in DOMAIN m \cup {k} |-> IF x = k THEN v ELSE m[x]]

\* registerComponent without the template check of line 35.
registerComponent_Unchecked(reg, name, options) == MapSet(reg, toLowerCase(name), options)

\* registerComponent without the toLowerCase of line 40.
registerComponent_CaseSensitive(reg, name, options) ==
    IF TemplateFalsy(options) THEN reg
    ELSE MapSet(reg, name, options)

\* registerComponent, on a registry value: the registry afterwards.
registerComponent(reg, name, options) ==
    IF TemplateFalsy(options) THEN reg
    ELSE MapSet(reg, toLowerCase(name), options)

tagNameOf(tag) == toLowerCase(tag)

\* The derived name without the toLowerCase of line 51.
componentNameOf_CaseSensitive(tag) ==
    IF startsWith(tag, Z_PREFIX) THEN slice(tag, 2) ELSE tag

componentNameOf(tag) ==
    IF startsWith(tagNameOf(tag), Z_PREFIX) THEN slice(tagNameOf(tag), 2)
    ELSE tagNameOf(tag)

----------------------------------------------------------------------------
(* Values held by scopes: t is the JavaScript type, s the characters of a  *)
(* string (or the name of a function), n the owner of an emit closure.     *)

Undefined == [t |-> "undefined", s |-> <<>>, n |-> 0]
Str(chars) == [t |-> "string", s |-> chars, n |-> 0]
Fn(name) == [t |-> "function", s |-> name, n |-> 0]
EmitOf(i) == [t |-> "emit", s |-> <<>>, n |-> i]
Num(k) == [t |-> "number", s |-> <<>>, n |-> k]

MapGet(m, k) == IF k \in DOMAIN m THEN m[k] ELSE Undefined

----------------------------------------------------------------------------
(* DOM heap.  A node's identity is its index in the heap; parent 0 means   *)
(* detached.  Source trees (templates, documents) are nested records.      *)

Elem(tag, attrs, kids) ==
    [type |-> "element", tag |-> tag, attrs |-> attrs, text |-> <<>>, kids |-> kids]
Text(chars) ==
    [type |-> "text", tag |-> <<>>, attrs |-> <<>>, text |-> chars, kids |-> <<>>]
Attr(name, value) == [name |-> name, value |-> value]

\* innerHTML = ...: the parsed items become fresh nodes under `parent`.
RECURSIVE Build(_, _, _), BuildKids(_, _, _, _)
Build(ns, item, parent) ==
    LET id == Len(ns) + 1
        n0 == [type |-> item.type, tag |-> item.tag, attrs |-> item.attrs,
               text |-> item.text, kids |-> <<>>, parent |-> parent]
    IN  BuildKids(Append(ns, n0), item.kids, id, 1)
BuildKids(ns, items, id, i) ==
    IF i > Len(items) THEN ns
    ELSE LET kid == Len(ns) + 1
             ns1 == Build(ns, items[i], id)
         IN  BuildKids([ns1 EXCEPT ![id].kids = Append(@, kid)], items, id, i + 1)

RemoveFrom(seq, x) == SelectSeq(seq, LAMBDA y : y # x)

IndexOf(seq, x) == CHOOSE i \in 1..Len(seq) : seq[i] = x

\* Node.remove(): take n out of its parent's child list.
Detach(ns, n) ==
    IF ns[n].parent = 0 THEN ns
    ELSE [ns EXCEPT ![ns[n].parent].kids = RemoveFrom(@, n), ![n].parent = 0]

\* parent.insertBefore(n, ref): n is first removed from where it is.
insertBefore(ns, p, n, ref) ==
    LET d == Detach(ns, n)
        i == IndexOf(d[p].kids, ref)
    IN  [d EXCEPT ![p].kids = SubSeq(@, 1, i - 1) \o <<n>> \o SubSeq(@, i, Len(@)),
                  ![n].parent = p]

\* el.replaceWith(n): nothing happens when el has no parent.
replaceWith(ns, el, n) ==
    IF ns[el].parent = 0 THEN ns
    ELSE LET p == ns[el].parent
             d == Detach(ns, n)
             i == IndexOf(d[p].kids, el)
         IN  [d EXCEPT ![p].kids = [@ EXCEPT ![i] = n], ![n].parent = p,
                       ![el].parent = 0]

\* element.firstElementChild, 0 for null.
firstElementChild(ns, n) ==
    LET els == SelectSeq(ns[n].kids, LAMBDA k : ns[k].type = "element")
    IN  IF els = <<>> THEN 0 ELSE Head(els)

\* The descendants of n in document order (n itself excluded).
RECURSIVE Descendants(_, _), DescOfKids(_, _, _)
Descendants(ns, n) == DescOfKids(ns, ns[n].kids, 1)
DescOfKids(ns, kids, i) ==
    IF i > Len(kids) THEN <<>>
    ELSE <<kids[i]>> \o Descendants(ns, kids[i]) \o DescOfKids(ns, kids, i + 1)

\* element.querySelector('slot'), 0 for null.
querySelectorSlot(ns, n) ==
    LET hits == SelectSeq(Descendants(ns, n),
                          LAMBDA k : ns[k].type = "element" /\ toLowerCase(ns[k].tag) = SLOT)
    IN  IF hits = <<>> THEN 0 ELSE Head(hits)

\* The template string after trim(): leading and trailing white space goes,
\* and a text item left empty is no item at all.
TrimFirst(items) ==
    IF items # <<>> /\ Head(items).type = "text"
    THEN IF trimStart(Head(items).text) = <<>> THEN Tail(items)
         ELSE <<Text(trimStart(Head(items).text))>> \o Tail(items)
    ELSE items
TrimLast(items) ==
    IF items # <<>> /\ items[Len(items)].type = "text"
    THEN IF trimEnd(items[Len(items)].text) = <<>> THEN SubSeq(items, 1, Len(items) - 1)
         ELSE SubSeq(items, 1, Len(items) - 1) \o <<Text(trimEnd(items[Len(items)].text))>>
    ELSE items
trim(items) == TrimLast(TrimFirst(items))

\* element.getAttribute(name), the empty string when absent.
HasAttr(ns, n, name) == \E k \in 1..Len(ns[n].attrs) : ns[n].attrs[k].name = name
getAttr(ns, n, name) ==
    IF HasAttr(ns, n, name)
    THEN ns[n].attrs[CHOOSE k \in 1..Len(ns[n].attrs) : ns[n].attrs[k].name = name].value
    ELSE <<>>
setAttr(ns, n, name, value) ==
    IF HasAttr(ns, n, name)
    THEN [ns EXCEPT ![n].attrs =
            [k \in 1..Len(@) |-> IF @[k].name = name THEN Attr(name, value) ELSE @[k]]]
    ELSE [ns EXCEPT ![n].attrs = Append(@, Attr(name, value))]

\* The DOMTokenList of a class attribute: its white-space separated tokens,
\* each once, in order.
RECURSIVE tokensFrom(_, _, _)
tokensFrom(s, cur, acc) ==
    LET acc1 == IF cur = <<>> \/ cur \in SeqToSet(acc) THEN acc ELSE Append(acc, cur)
    IN  IF s = <<>> THEN acc1
        ELSE IF IsSpace(Head(s)) THEN tokensFrom(Tail(s), <<>>, acc1)
        ELSE tokensFrom(Tail(s), Append(cur, Head(s)), acc)
classList(ns, n) == tokensFrom(getAttr(ns, n, CLASS), <<>>, <<>>)

RECURSIVE join(_, _)
join(toks, sep) ==
    IF toks = <<>> THEN <<>>
    ELSE IF Len(toks) = 1 THEN Head(toks)
    ELSE Head(toks) \o sep \o join(Tail(toks), sep)

RECURSIVE addTokens(_, _)
addTokens(have, toks) ==
    IF toks = <<>> THEN have
    ELSE addTokens(IF Head(toks) \in SeqToSet(have) THEN have ELSE Append(have, Head(toks)),
                   Tail(toks))

\* DOMTokenList.add(...tokens) throws, before adding anything, when a token
\* is empty (SyntaxError) or holds white space (InvalidCharacterError).
classListAddThrows(toks) ==
    \E k \in 1..Len(toks) :
        toks[k] = <<>> \/ \E j \in 1..Len(toks[k]) : IsSpace(toks[k][j])
classListAdd(ns, n, toks) ==
    IF toks = <<>> THEN ns
    ELSE setAttr(ns, n, CLASS, join(addTokens(classList(ns, n), toks), <<" ">>))

----------------------------------------------------------------------------
(* The host's reactivity: utils.evalExp, watchEffect and reactive.  An     *)
(* expression is its source text: an identifier x, a member access x.y     *)
(* (a TypeError when x is undefined) or a concatenation x+y.               *)

EmptyMap == [x \in {} |-> Undefined]

ToChars(v) == IF v.t = "undefined" THEN <<"u", "n", "d", "e", "f", "i", "n", "e", "d">> ELSE v.s

ExprReads(e) ==
    IF Len(e) = 3 /\ e[2] = "+" THEN {<<e[1]>>, <<e[3]>>} ELSE {<<e[1]>>}

evalExp(e, obj) ==
    IF Len(e) = 1 THEN [ok |-> TRUE, val |-> MapGet(obj, e)]
    ELSE IF e[2] = "."
    THEN IF MapGet(obj, <<e[1]>>).t = "undefined"
         THEN [ok |-> FALSE, val |-> Undefined]
         ELSE [ok |-> TRUE, val |-> Undefined]
    ELSE [ok |-> TRUE,
          val |-> Str(ToChars(MapGet(obj, <<e[1]>>)) \o ToChars(MapGet(obj, <<e[3]>>)))]

\* The property emit of childData is defined with writable: false (line 100)
\* and nothing else is: a write to it throws TypeError.
Writable_All(key) == TRUE

Writable(key) == key # EMIT

\* The object a scope id stands for: 0 is the application's root scope,
\* i > 0 the childData of instance i.
ScopeObj(W, sid) == IF sid = 0 THEN W.rootScope ELSE W.insts[sid].data

\* A watcher's function body (lines 115-119), and the reactive write it makes:
\* a changed key re-runs the watchers that read it.
RECURSIVE runEffect(_, _), assignChild(_, _, _, _), trigger(_, _, _, _)

\* The watcher's body without the try of lines 115-119.
runEffect_Uncaught(W, k) ==
    LET e == W.effects[k]
        r == evalExp(e.expr, ScopeObj(W, e.scope))
        W1 == [W EXCEPT !.ran = Append(@, k)]
    IN  IF ~r.ok \/ ~Writable(e.prop)
        THEN [W1 EXCEPT !.thrown = TRUE]
        ELSE assignChild(W1, e.inst, e.prop, r.val)

runEffect(W, k) ==
    LET e == W.effects[k]
        r == evalExp(e.expr, ScopeObj(W, e.scope))
        W1 == [W EXCEPT !.ran = Append(@, k)]
    IN  IF ~r.ok \/ ~Writable(e.prop)
        THEN [W1 EXCEPT !.errors = Append(@, "Prop Error")]
        ELSE assignChild(W1, e.inst, e.prop, r.val)
assignChild(W, i, key, val) ==
    LET changed == MapGet(W.insts[i].data, key) # val
        W1 == [W EXCEPT !.insts[i].data = MapSet(@, key, val)]
    IN  IF changed THEN trigger(W1, i, key, 1) ELSE W1
trigger(W, sid, key, k) ==
    IF k > Len(W.effects) THEN W
    ELSE trigger(IF <<sid, key>> \in W.effects[k].deps THEN runEffect(W, k) ELSE W,
                 sid, key, k + 1)

----------------------------------------------------------------------------
(* The beforeCompile hook (lines 47-169) and the host's utils.compile.     *)

DIV == <<"d", "i", "v">>

Last(s) == s[Len(s)]

\* The hook returns: its invocation is recorded with the value returned
\* ("threw" when an exception left it) and with whether the tree, the
\* ChildStates, the root scope and the effect lists are as the hook found
\* them in W0.
HookRet(W0, W, el, sc, cs, inst, ret) ==
    [W EXCEPT !.hooks = Append(@, [el |-> el, scope |-> sc, cs |-> cs,
                                   inst |-> inst, ret |-> ret,
                                   same |-> /\ W.nodes = W0.nodes
                                            /\ W.insts = W0.insts
                                            /\ W.effects = W0.effects
                                            /\ W.rootScope = W0.rootScope])]

\* The watcher of line 114 evaluating against the child's own data.
watcher_ChildScope(i, propName, value, sc, cs) ==
    [cs |-> cs, inst |-> i, prop |-> propName, expr |-> value, scope |-> i,
     deps |-> {<<i, key>> : key \in ExprReads(value)}]

\* The watcher of lines 114-120: it evaluates `value` against the parent
\* scope, writes childData[propName], and belongs to the parent's cs.
watcher(i, propName, value, sc, cs) ==
    [cs |-> cs, inst |-> i, prop |-> propName, expr |-> value, scope |-> sc,
     deps |-> {<<sc, key>> : key \in ExprReads(value)}]

\* One attribute of the matched element (lines 107-138).
processAttr(W, i, componentRoot, sc, cs, attr) ==
    LET name == attr.name
        value == attr.value
    IN  IF startsWith(name, <<":">>)
        THEN LET propName == slice(name, 1)
                 eff == watcher(i, propName, value, sc, cs)
             IN  runEffect([W EXCEPT !.effects = Append(@, eff)], Len(W.effects) + 1)
        ELSE IF startsWith(name, <<"@">>)
        THEN [W EXCEPT !.insts[i].listeners = MapSet(@, slice(name, 1), value)]
        ELSE IF name = CLASS
        THEN IF classListAddThrows(split(value, " "))
             THEN [W EXCEPT !.thrown = TRUE]
             ELSE [W EXCEPT !.nodes = classListAdd(@, componentRoot, split(value, " "))]
        ELSE IF name = STYLE
        THEN [W EXCEPT !.nodes = setAttr(@, componentRoot, STYLE,
                                   getAttr(@, componentRoot, STYLE) \o <<";">> \o value)]
        ELSE IF ~Writable(name)
        THEN [W EXCEPT !.thrown = TRUE]
        ELSE assignChild(W, i, name, Str(value))

\* Array.from(el.attributes).forEach(...): an exception ends the loop.
RECURSIVE processAttrs(_, _, _, _, _, _, _)
processAttrs(W, i, componentRoot, sc, cs, attrs, k) ==
    IF k > Len(attrs) \/ W.thrown THEN W
    ELSE processAttrs(processAttr(W, i, componentRoot, sc, cs, attrs[k]),
                      i, componentRoot, sc, cs, attrs, k + 1)

RECURSIVE beforeCompile(_, _, _, _, _), instantiate(_, _, _, _, _, _),
          slotLoop(_, _, _, _, _, _, _), compile(_, _, _, _, _),
          compileKids(_, _, _, _, _, _)

\* Lines 143-152: every child of el is compiled in the parent scope and
\* moved before the slot.
slotLoop(reg, W, i, el, slot, sc, cs) ==
    IF W.overflow \/ W.nodes[el].kids = <<>> THEN W
    ELSE LET child == Head(W.nodes[el].kids)
             W1 == compile(reg, W, child, sc, cs)
         IN  IF W1.overflow THEN W1
             ELSE slotLoop(reg,
                           [W1 EXCEPT !.nodes = insertBefore(@, @[slot].parent, child, slot),
                                      !.projected = Append(@, [inst |-> i, node |-> child])],
                           i, el, slot, sc, cs)

\* Lines 56-164: the tag is registered.
instantiate(reg, W, el, sc, cs, def) ==
    IF W.fuel = 0 THEN [W EXCEPT !.overflow = TRUE]
    ELSE
    LET tempContainer == Len(W.nodes) + 1
        ns1 == Build(W.nodes, Elem(DIV, <<>>, trim(def.template)), 0)
        componentRoot == firstElementChild(ns1, tempContainer)
        W0 == [W EXCEPT !.nodes = ns1, !.fuel = @ - 1]
    IN  IF componentRoot = 0
        THEN HookRet(W, [W0 EXCEPT !.errors = Append(@, "single root")],
                     el, sc, cs, 0, "false")
        ELSE
        LET i == Len(W.insts) + 1
            childData == EMIT :> EmitOf(i)
            W1 == [W0 EXCEPT !.insts = Append(@,
                      [el |-> el, root |-> componentRoot, scope |-> sc, cs |-> cs,
                       def |-> def, data |-> childData, listeners |-> EmptyMap,
                       kids |-> W0.nodes[el].kids, done |-> FALSE])]
            W2 == processAttrs(W1, i, componentRoot, sc, cs, W1.nodes[el].attrs, 1)
        IN  IF W2.thrown THEN HookRet(W, W2, el, sc, cs, i, "threw")
            ELSE
            LET slot == querySelectorSlot(W2.nodes, componentRoot)
                W3 == IF slot = 0 THEN W2 ELSE slotLoop(reg, W2, i, el, slot, sc, cs)
            IN  IF W3.overflow THEN W3
                ELSE
                LET W4 == [W3 EXCEPT !.nodes =
                              replaceWith(IF slot = 0 THEN @ ELSE Detach(@, slot),
                                          el, componentRoot)]
                    W5 == compile(reg, W4, componentRoot, i, i)
                IN  IF W5.overflow THEN W5
                    ELSE HookRet(W, [W5 EXCEPT !.insts[i].done = TRUE],
                                 el, sc, cs, i, "false")

beforeCompile(reg, W, el, sc, cs) ==
    IF W.nodes[el].type # "element" THEN HookRet(W, W, el, sc, cs, 0, "undefined")
    ELSE LET componentName == componentNameOf(W.nodes[el].tag)
         IN  IF componentName \in DOMAIN reg
             THEN instantiate(reg, W, el, sc, cs, reg[componentName])
             ELSE HookRet(W, W, el, sc, cs, 0, "true")

\* The host compiles a node: the hook first; unless it returned false, the
\* node itself against (scope, cs) and then its children.  An exception
\* leaving a hook is caught by the host and reported to the onError hooks.
compile(reg, W, n, sc, cs) ==
    IF W.overflow THEN W
    ELSE LET H == beforeCompile(reg, W, n, sc, cs)
         IN  IF H.overflow THEN H
             ELSE IF Last(H.hooks).ret = "false" THEN H
             ELSE compileKids(reg,
                     [H EXCEPT !.thrown = FALSE,
                               !.errors = IF H.thrown THEN Append(@, "Zog Error") ELSE @,
                               !.compiled = Append(@, [node |-> n, scope |-> sc, cs |-> cs])],
                     H.nodes[n].kids, sc, cs, 1)
compileKids(reg, W, kids, sc, cs, k) ==
    IF k > Len(kids) \/ W.overflow THEN W
    ELSE compileKids(reg, compile(reg, W, kids[k], sc, cs), kids, sc, cs, k + 1)

----------------------------------------------------------------------------
(* emit (lines 75-99), the closure installed on instance i.                *)

VALUEOF == <<"v", "a", "l", "u", "e", "O", "f">>

\* parentListeners[eventName]: parentListeners is a plain object, so a name
\* of Object.prototype reads as an inherited native function.
listenerOf(listeners, eventName) ==
    IF eventName \in DOMAIN listeners THEN Str(listeners[eventName])
    ELSE IF eventName = VALUEOF THEN Fn(VALUEOF)
    ELSE Undefined

Falsy(v) == v.t = "undefined" \/ (v.t = "string" /\ v.s = <<>>)

\* What a function of the application does when called: the function named
\* "t" throws, every other one returns.
FnThrows(name) == name = <<"t">>

\* The call of line 86 without its arguments.
callParent_NoArgs(W, sc, name, args) ==
    [W EXCEPT !.calls = Append(@, [scope |-> sc, fn |-> name, args |-> <<>>]),
              !.thrown = FnThrows(name)]

\* A call of the parent-scope function `name`: recorded, and it may throw.
callParent(W, sc, name, args) ==
    [W EXCEPT !.calls = Append(@, [scope |-> sc, fn |-> name, args |-> args]),
              !.thrown = FnThrows(name)]

EmitFailed(W) == [W EXCEPT !.thrown = FALSE, !.errors = Append(@, "Emit Failed")]

\* The first argument of a call of emit, as an event name (none: undefined,
\* which names no listener).
EventNameOf(args) == IF args = <<>> THEN <<>> ELSE args[1].s

RECURSIVE emit(_, _, _, _)

\* Lines 89-97: new Function(...keys, '$event', 'return (' + code + ')') is
\* called with the values of the scope: the code works on parameters, which
\* are copies.  The code is x+=1, f(), f($event), or something that does
\* not parse.  Every exception is caught (line 95).
runInline(W, sc, code, args) ==
    LET obj == ScopeObj(W, sc)
        event == IF args = <<>> THEN Undefined ELSE args[1]
        f == MapGet(obj, <<code[1]>>)
        isCall0 == Len(code) = 3 /\ code[2] = "(" /\ code[3] = ")"
        isCall1 == Len(code) = 4 /\ code[2] = "(" /\ code[3] = "$" /\ code[4] = ")"
        isIncr == Len(code) = 4 /\ code[2] = "+" /\ code[3] = "=" /\ code[4] = "1"
        callArgs == IF isCall1 THEN <<event>> ELSE <<>>
    IN  IF isIncr
        THEN IF <<code[1]>> \in DOMAIN obj
             THEN LET locals == MapSet(obj, <<code[1]>>,
                                       [obj[<<code[1]>>] EXCEPT !.n = @ + 1])
                  IN  [W EXCEPT !.locals = locals]
             ELSE EmitFailed(W)
        ELSE IF isCall0 \/ isCall1
        THEN IF f.t = "function"
             THEN LET C == callParent(W, sc, <<code[1]>>, callArgs)
                  IN  IF C.thrown THEN EmitFailed(C) ELSE C
             ELSE IF f.t = "emit"
             THEN LET C == emit(callParent(W, sc, <<code[1]>>, callArgs), f.n,
                                EventNameOf(callArgs), <<>>)
                  IN  IF C.thrown THEN EmitFailed(C) ELSE C
             ELSE EmitFailed(W)
        ELSE EmitFailed(W)

emit(W, i, eventName, args) ==
    LET sc == W.insts[i].scope
        handlerCode == listenerOf(W.insts[i].listeners, eventName)
        target == IF handlerCode.t = "string"
                  THEN MapGet(ScopeObj(W, sc), handlerCode.s) ELSE Undefined
    IN  IF Falsy(handlerCode)
        THEN [W EXCEPT !.errors = Append(@, "No listener")]
        ELSE IF target.t = "function"
        THEN callParent(W, sc, handlerCode.s, args)
        ELSE IF target.t = "emit"
        THEN emit(callParent(W, sc, handlerCode.s, args), target.n, EventNameOf(args),
                  IF args = <<>> THEN <<>> ELSE Tail(args))
        ELSE IF handlerCode.t = "function" THEN EmitFailed(W)
        ELSE runInline(W, sc, handlerCode.s, args)

----------------------------------------------------------------------------
(* State machine *)

MaxInst == 4    \* component instantiations one host compilation may make

NewLogs(W) ==
    [W EXCEPT !.compiled = <<>>, !.hooks = <<>>, !.errors = <<>>, !.calls = <<>>,
              !.ran = <<>>, !.projected = <<>>, !.locals = EmptyMap, !.thrown = FALSE]

\* The world: nodes (the DOM heap), insts (one record per childData created:
\* the element, its replacement root, the parent scope and compile state, the
\* definition, childData, parentListeners, the element's child nodes when the
\* hook was called, and whether the hook reached its end), effects (the watchers added to compile states), rootScope, and what
\* the last operation did: the nodes the host compiled and against which
\* scope, the hook invocations, console errors, calls of parent functions,
\* watchers run, children moved into a slot, the parameters of the function
\* built at line 93 after it ran, and setup invocations (the hook makes none:
\* it never reads def.setup).  fuel bounds the instantiations of one
\* compilation; overflow records that the bound was hit.
InitWorld(root) ==
    [nodes |-> <<>>, insts |-> <<>>, effects |-> <<>>, rootScope |-> root,
     compiled |-> <<>>, hooks |-> <<>>, errors |-> <<>>, calls |-> <<>>, ran |-> <<>>,
     projected |-> <<>>, setups |-> <<>>,
     locals |-> EmptyMap, thrown |-> FALSE, fuel |-> MaxInst, overflow |-> FALSE]

Op(op, name, inst, args, flag) ==
    [op |-> op, name |-> name, inst |-> inst, args |-> args, flag |-> flag]

InitWith(roots) ==
    /\ componentRegistry = EmptyMap
    /\ world \in {InitWorld(r) : r \in roots}
    /\ phase = "setup"
    /\ lastOp = Op("init", <<>>, 0, <<>>, FALSE)
    /\ others = <<>>

\* app.registerComponent(name, options); flag: the template was falsy.
RegisterComponent(names, defs) ==
    \E name \in names, options \in defs :
        /\ componentRegistry' = registerComponent(componentRegistry, name, options)
        /\ lastOp' = Op("register", name, 0, <<options>>, TemplateFalsy(options))
        /\ UNCHANGED <<world, phase, others>>

\* The host mounts the application: the document is compiled from its
\* container against the root scope.
HostCompile(docs) ==
    /\ phase = "setup"
    /\ \E doc \in docs :
        LET W0 == [NewLogs(world) EXCEPT !.nodes = Build(<<>>, Elem(DIV, <<>>, doc), 0)]
        IN  world' = compile(componentRegistry, W0, 1, 0, 0)
    /\ phase' = "live"
    /\ lastOp' = Op("compile", <<>>, 0, <<>>, world'.overflow)
    /\ UNCHANGED <<componentRegistry, others>>

\* The Map the closures of installation k hold.  Every call of install
\* makes its own (line 18 is inside install); one Map at module level
\* would be the Map of all.
mapOf_ModuleLevel(k) == 1

mapOf(k) == k

\* The Maps by number: that of the first installation, then the others.
AllMaps(reg, more) == <<reg>> \o more

MaxOthers == 1  \* further installations of the plugin

\* Another application installs the plugin: install runs again (lines 15-18).
Install ==
    /\ Len(others) < MaxOthers
    /\ others' = Append(others, EmptyMap)
    /\ lastOp' = Op("install", <<>>, Len(others) + 2, <<>>, FALSE)
    /\ UNCHANGED <<componentRegistry, world, phase>>

\* registerComponent as returned to installation k (line 172); flag: the
\* template was falsy.
RegisterComponentOn(names, defs) ==
    \E k \in 2..(Len(others) + 1), name \in names, options \in defs :
        LET all == AllMaps(componentRegistry, others)
            after == [all EXCEPT ![mapOf(k)] = registerComponent(@, name, options)]
        IN  /\ componentRegistry' = Head(after)
            /\ others' = Tail(after)
            /\ lastOp' = Op("registerOn", name, k, <<options>>, TemplateFalsy(options))
            /\ UNCHANGED <<world, phase>>

MaxTop == 3     \* top-level nodes of the document

\* Later the host compiles a further fragment of the document (content it
\* renders after mounting), again against the root scope.
HostCompileMore(docs) ==
    /\ phase = "live" /\ ~world.overflow
    /\ \E doc \in docs :
        LET old == Len(world.nodes[1].kids)
            W0 == [NewLogs(world) EXCEPT !.nodes = BuildKids(@, doc, 1, 1),
                                         !.fuel = MaxInst]
            added == SubSeq(W0.nodes[1].kids, old + 1, Len(W0.nodes[1].kids))
        IN  /\ old + Len(doc) <= MaxTop
            /\ world' = compileKids(componentRegistry, W0, added, 0, 0, 1)
    /\ lastOp' = Op("compile", <<>>, 0, <<>>, world'.overflow)
    /\ UNCHANGED <<componentRegistry, phase, others>>

\* The application writes a key of its root scope; the watchers that read
\* the key run again.
SetParent(keys, vals) ==
    /\ phase = "live" /\ ~world.overflow
    /\ \E key \in keys, val \in vals :
        /\ MapGet(world.rootScope, key) # val
        /\ world' = trigger([NewLogs(world) EXCEPT !.rootScope = MapSet(@, key, val)],
                            0, key, 1)
        /\ lastOp' = Op("set", key, 0, <<val>>, FALSE)
    /\ UNCHANGED <<componentRegistry, phase, others>>

\* Code of instance i (its compiled template) calls emit(eventName, ...args);
\* flag: the call threw.
Emit(events, argLists) ==
    /\ phase = "live" /\ ~world.overflow
    /\ \E i \in 1..Len(world.insts), eventName \in events, args \in argLists :
        /\ world.insts[i].done
        /\ world' = emit(NewLogs(world), i, eventName, args)
        /\ lastOp' = Op("emit", eventName, i, args, world'.thrown)
    /\ UNCHANGED <<componentRegistry, phase, others>>

----------------------------------------------------------------------------
(* Inputs *)

zc == <<"z", "-", "c">>
zb == <<"z", "-", "b">>
SPAN == <<"s", "p", "a", "n">>

Def(template) == [hasTemplate |-> TRUE, template |-> template, hasSetup |-> FALSE]
DefSetup(template) == [hasTemplate |-> TRUE, template |-> template, hasSetup |-> TRUE]
NoTemplate == [hasTemplate |-> FALSE, template |-> <<>>, hasSetup |-> FALSE]

T_plain == <<Elem(SPAN, <<>>, <<>>)>>
T_slot == <<Elem(DIV, <<>>, <<Elem(SLOT, <<>>, <<>>)>>)>>
T_nested == <<Elem(DIV, <<>>, <<Elem(zb, <<>>, <<>>)>>)>>
T_two == <<Elem(DIV, <<>>, <<>>), Elem(DIV, <<>>, <<>>)>>
T_text == <<Text(<<" ">>)>>
T_mid == <<Elem(DIV, <<>>, <<Elem(SPAN, <<>>, <<>>), Elem(SLOT, <<>>, <<>>),
                           Text(<<"x">>)>>)>>

TreeNames == {<<"c">>, <<"b">>}
TreeDefs == {Def(T_plain), Def(T_slot), Def(T_nested), Def(T_two), Def(T_text),
             DefSetup(T_plain), Def(T_mid)}
TreeDocs ==
    { <<Elem(zc, <<>>, <<>>)>>,
      <<Elem(zc, <<>>, <<>>), Elem(SPAN, <<>>, <<>>)>>,
      <<Elem(zc, <<>>, <<Elem(zb, <<>>, <<>>)>>)>>,
      <<Elem(zc, <<>>, <<Text(<<"h", "i">>), Elem(SPAN, <<>>, <<>>)>>)>>,
      <<Elem(DIV, <<>>, <<Elem(zb, <<>>, <<>>)>>)>> }

T_div == <<Elem(DIV, <<>>, <<>>)>>
EmptyTemplate == [hasTemplate |-> TRUE, template |-> <<>>, hasSetup |-> FALSE]

RegNames == {<<"c">>, <<"C">>, <<"z", "-", "c">>, <<"Z", "-", "c">>, <<"b">>}
RegDefs == {Def(T_plain), Def(T_div), NoTemplate, EmptyTemplate}
RegTags == {<<"c">>, <<"C">>, <<"z", "-", "c">>, <<"Z", "-", "C">>,
            <<"z", "-", "z", "-", "c">>, <<"Z", "-", "z", "-", "C">>,
            <<"b">>, <<"z", "-", "B">>, SPAN}
RegDocs == { <<Elem(t, <<>>, <<>>)>> : t \in RegTags }

At(name) == <<"@">> \o name
Colon(name) == <<":">> \o name

\* Attribute lists of at most n attributes, each name once.
RECURSIVE AttrSeqs(_, _)
AttrSeqs(attrs, n) ==
    IF n = 0 THEN {<<>>}
    ELSE LET shorter == AttrSeqs(attrs, n - 1)
             longer == { Append(sq, a) : sq \in shorter, a \in attrs }
         IN  shorter \cup
             { sq \in longer : \A i, j \in 1..Len(sq) : i < j => sq[i].name # sq[j].name }

MaxAttrs == 2   \* attributes on the matched element

\* Emission: the root scope has a function h, a function t that throws and
\* a number n; the template of c may hold a <z-b> that relays to c's emit.
EmitRoot == (<<"h">> :> Fn(<<"h">>)) @@ (<<"t">> :> Fn(<<"t">>)) @@ (<<"n">> :> Num(0))
T_relay == <<Elem(DIV, <<>>, <<Elem(zb, <<Attr(At(<<"e">>), EMIT)>>, <<>>)>>)>>
EmitDefs == {Def(T_plain), Def(T_relay)}
EmitAttrs ==
    { Attr(At(<<"e">>), v) : v \in { <<"h">>, <<"t">>, <<"u">>, <<>>, <<"n", "+", "=", "1">>,
                                      <<"h", "(", "$", ")">>, <<"t", "(", ")">>, <<"(">> } }
    \cup { Attr(At(<<"f">>), <<"h">>) }
EmitDocs == { <<Elem(zc, attrs, <<>>)>> : attrs \in AttrSeqs(EmitAttrs, MaxAttrs) }
EmitEvents == {<<"e">>, <<"f">>, <<"g">>, VALUEOF}
EmitArgs == {<<>>, <<Str(<<"e">>)>>, <<Str(<<"x">>), Str(<<"y">>)>>}

\* Props: the root scope has the strings a and b; the template of c may
\* hold a <z-b> bound to c's own prop p.
PropRoot == (<<"a">> :> Str(<<"H">>)) @@ (<<"b">> :> Str(<<"K">>))
PropKeys == {<<"a">>, <<"b">>}
PropVals == {Str(<<"H">>), Str(<<"A">>)}
T_pass == <<Elem(DIV, <<>>, <<Elem(zb, <<Attr(Colon(<<"q">>), <<"p">>)>>, <<>>)>>)>>
PropDefs == {Def(T_plain), Def(T_pass)}
PropAttrs ==
    { Attr(Colon(<<"p">>), v) : v \in { <<"a">>, <<"b">>, <<"u", ".", "x">> } }
    \cup { Attr(Colon(<<"q">>), <<"a", "+", "b">>), Attr(<<"p">>, <<"k">>),
           Attr(Colon(EMIT), <<"a">>), Attr(CLASS, <<>>) }
PropDocs == { <<Elem(zc, attrs, <<>>)>> : attrs \in AttrSeqs(PropAttrs, MaxAttrs) }

\* Class and style: the template root of T_box has class="m n" style="t".
T_box == <<Elem(DIV, <<Attr(CLASS, <<"m", " ", "n">>), Attr(STYLE, <<"t">>)>>,
                <<Elem(SLOT, <<>>, <<>>)>>)>>
ClassDefs == {Def(T_box), Def(T_plain)}
ClassAttrs ==
    { Attr(CLASS, v) : v \in { <<>>, <<"x">>, <<"x", " ", "y">>, <<"x", " ", " ", "y">>,
                               <<" ", "x">>, <<"m">>, <<"x", "\t", "y">> } }
    \cup { Attr(STYLE, <<"s">>), Attr(STYLE, <<>>), Attr(EMIT, <<"k">>),
           Attr(Colon(EMIT), <<"a">>) }
ClassDocs ==
    { <<Elem(zc, attrs, <<>>), Elem(SPAN, <<>>, <<Text(<<"h", "i">>)>>)>> :
         attrs \in AttrSeqs(ClassAttrs, MaxAttrs) }

Init == InitWith({EmptyMap})

Next ==
    \/ RegisterComponent(TreeNames, TreeDefs)
    \/ HostCompile(TreeDocs)

Spec == Init /\ [][Next]_vars

----------------------------------------------------------------------------
(* Vocabulary of the properties *)

AfterCompile == lastOp.op = "compile" /\ ~world.overflow

InTree(n) == n \in SeqToSet(Descendants(world.nodes, 1))

Insts == 1..Len(world.insts)
Hooks == 1..Len(world.hooks)

\* The number of root elements a definition's template parses to.
RootCount(def) == Len(SelectSeq(trim(def.template), LAMBDA it : it.type = "element"))

\* The hook was invoked on an element whose derived name is registered.
MatchedHook(j) ==
    /\ world.nodes[world.hooks[j].el].type = "element"
    /\ componentNameOf(world.nodes[world.hooks[j].el].tag) \in DOMAIN componentRegistry
DefOfHook(j) == componentRegistry[componentNameOf(world.nodes[world.hooks[j].el].tag)]

InstsOf(el) == {i \in Insts : world.insts[i].el = el}

----------------------------------------------------------------------------
(* C1: with single-root templates only, after the host compiled the tree   *)
(* every matched element has been replaced by exactly one replacement root *)
(* (one instance, one root in the tree) and is itself no longer in the     *)
(* tree.                                                                   *)
C1_MatchedReplacedExactlyOnce ==
    (AfterCompile /\ \A k \in DOMAIN componentRegistry : RootCount(componentRegistry[k]) = 1)
    => \A j \in Hooks :
          MatchedHook(j) =>
             /\ Cardinality(InstsOf(world.hooks[j].el)) = 1
             /\ ~InTree(world.hooks[j].el)
             /\ \A i \in InstsOf(world.hooks[j].el) : InTree(world.insts[i].root)

(* C2: a matched tag whose template does not parse to exactly one root     *)
(* element gets a shape error, the hook returns false, no instance and no  *)
(* replacement is created, and the original element leaves the tree.       *)
C2_ShapeErrorDropsElement ==
    AfterCompile =>
       \A j \in Hooks :
          (MatchedHook(j) /\ RootCount(DefOfHook(j)) # 1) =>
             /\ world.hooks[j].ret = "false"
             /\ world.hooks[j].inst = 0
             /\ "single root" \in SeqToSet(world.errors)
             /\ ~InTree(world.hooks[j].el)

(* C3: every instance whose definition has a setup function had setup      *)
(* invoked exactly once.                                                   *)
C3_SetupInvokedOnce ==
    AfterCompile =>
       \A i \in Insts :
          world.insts[i].def.hasSetup =>
             Cardinality({k \in 1..Len(world.setups) : world.setups[k] = i}) = 1

(* C7: a child projected into an instance's slot is never compiled against *)
(* that instance's ChildState.                                             *)
C7_SlotContentNotCompiledInChildScope ==
    AfterCompile =>
       \A p \in 1..Len(world.projected) : \A c \in 1..Len(world.compiled) :
          ~(/\ world.compiled[c].node = world.projected[p].node
            /\ world.compiled[c].scope = world.projected[p].inst)

----------------------------------------------------------------------------
(* Registration and name resolution *)

NextRegistry ==
    \/ RegisterComponent(RegNames, RegDefs)
    \/ HostCompile(RegDocs)

SpecRegistry == Init /\ [][NextRegistry]_vars

\* What the hook's lookup (lines 51-56) finds for a tag under a registry.
Resolution(reg, tag) ==
    IF componentNameOf(tag) \in DOMAIN reg
    THEN [matched |-> TRUE, def |-> reg[componentNameOf(tag)]]
    ELSE [matched |-> FALSE, def |-> NoTemplate]

(* C9: a registerComponent call whose template is missing or empty leaves  *)
(* the registry, entry for entry, as it was, so every tag resolves as      *)
(* before the call.                                                        *)
C9_InvalidRegistrationIsNoOp ==
    [][(lastOp'.op = "register" /\ lastOp'.flag) =>
          /\ componentRegistry' = componentRegistry
          /\ \A t \in RegTags :
                Resolution(componentRegistry', t) = Resolution(componentRegistry, t)]_vars

\* An invalid registration under a name an earlier valid one had stored.
C9_Witness ==
    /\ lastOp.op = "register" /\ lastOp.flag
    /\ toLowerCase(lastOp.name) \in DOMAIN componentRegistry
    /\ lastOp.name # toLowerCase(lastOp.name)

\* The document's element (node 2) was resolved by the hook to the
\* definition registered under n.
TopTag == toLowerCase(world.nodes[2].tag)
ResolvedTo(n) ==
    \E j \in Hooks :
        /\ world.hooks[j].el = 2
        /\ world.hooks[j].inst # 0
        /\ world.insts[world.hooks[j].inst].def = componentRegistry[n]

(* C10, as claimed: for every registered name n, the bare tag <n> and the  *)
(* prefixed tag <z-n>, in any letter case, resolve to n's definition.      *)
C10_BareAndPrefixedResolve ==
    AfterCompile =>
       \A n \in DOMAIN componentRegistry :
          (TopTag = n \/ TopTag = Z_PREFIX \o n) => ResolvedTo(n)

(* C10, amended: for a registered name n that does not begin with z-, the  *)
(* bare tag <n> and the prefixed tag <z-n> resolve to n's definition in    *)
(* any letter case; for a name that begins with z- the prefixed tag <z-n>  *)
(* does, and the bare tag <n> is looked up under n without its prefix.     *)
C10_ResolveUnlessNameHasPrefix ==
    AfterCompile =>
       \A n \in DOMAIN componentRegistry :
          /\ (~startsWith(n, Z_PREFIX) /\ (TopTag = n \/ TopTag = Z_PREFIX \o n))
                => ResolvedTo(n)
          /\ (startsWith(n, Z_PREFIX) /\ TopTag = Z_PREFIX \o n) => ResolvedTo(n)
          /\ (startsWith(n, Z_PREFIX) /\ TopTag = n) =>
                IF slice(n, 2) \in DOMAIN componentRegistry
                THEN ResolvedTo(slice(n, 2))
                ELSE \A j \in Hooks : world.hooks[j].el = 2 => world.hooks[j].ret = "true"

\* An upper-case prefixed tag resolved to a name registered in lower case,
\* while the name z-c is registered too.
C10_Witness ==
    /\ AfterCompile
    /\ world.nodes[2].tag = <<"Z", "-", "C">>
    /\ {<<"c">>, <<"z", "-", "c">>} \subseteq DOMAIN componentRegistry
    /\ componentRegistry[<<"c">>] # componentRegistry[<<"z", "-", "c">>]
    /\ ResolvedTo(<<"c">>)

----------------------------------------------------------------------------
(* Event emission *)

InitEmit == InitWith({EmitRoot})

NextEmit ==
    \/ phase = "setup" /\ RegisterComponent(TreeNames, EmitDefs)
    \/ HostCompile(EmitDocs)
    \/ Emit(EmitEvents, EmitArgs)

SpecEmit == InitEmit /\ [][NextEmit]_vars

\* The element instance i was created for.
ElOf(W, i) == W.insts[i].el

\* The calls, during the last operation, of function fn of scope sc.
CallsOf(W, sc, fn) == SelectSeq(W.calls, LAMBDA c : c.scope = sc /\ c.fn = fn)

(* C5: when the matched element has @e="h" and h names a function of the   *)
(* parent scope, emit(e, a1..an) calls parentScope[h] exactly once, with    *)
(* exactly a1..an; when the element has no @e attribute, emit(e) calls no   *)
(* parent handler, changes no state and returns.                           *)
C5_EmitInvokesParentHandler ==
    [][lastOp'.op = "emit" =>
        LET i == lastOp'.inst
            e == lastOp'.name
            el == ElOf(world, i)
            sc == world.insts[i].scope
            h == getAttr(world.nodes, el, At(e))
        IN  /\ (/\ HasAttr(world.nodes, el, At(e))
                /\ MapGet(ScopeObj(world, sc), h).t \in {"function", "emit"})
               => CallsOf(world', sc, h) = <<[scope |-> sc, fn |-> h, args |-> lastOp'.args]>>
            /\ ~HasAttr(world.nodes, el, At(e))
               => /\ world'.calls = <<>>
                  /\ ~lastOp'.flag
                  /\ world'.insts = world.insts
                  /\ world'.rootScope = world.rootScope
                  /\ world'.nodes = world.nodes
                  /\ world'.effects = world.effects]_vars

\* emit('e', 'x', 'y') reached the parent's h with both arguments.
C5_Witness ==
    /\ lastOp.op = "emit" /\ Len(lastOp.args) = 2
    /\ world.calls = <<[scope |-> 0, fn |-> <<"h">>, args |-> lastOp.args]>>

(* C6: no call of emit propagates an exception to its caller.              *)
C6_EmitNeverThrows == lastOp.op = "emit" => ~lastOp.flag

----------------------------------------------------------------------------
(* Reactive props *)

InitProps == InitWith({PropRoot})

NextProps ==
    \/ phase = "setup" /\ RegisterComponent(TreeNames, PropDefs)
    \/ HostCompile(PropDocs)
    \/ SetParent(PropKeys, PropVals)

SpecProps == InitProps /\ [][NextProps]_vars

\* The :p="expr" attributes of the element instance i was created for.
DynAttrs(W, i) ==
    {a \in SeqToSet(W.nodes[ElOf(W, i)].attrs) : startsWith(a.name, <<":">>)}

\* ChildState[p] of instance i holds the value of attribute a's expression
\* against the parent scope (an expression that throws has no value).
InSync(W, i, a) ==
    evalExp(a.value, ScopeObj(W, W.insts[i].scope)).ok =>
       MapGet(W.insts[i].data, slice(a.name, 1)) =
          evalExp(a.value, ScopeObj(W, W.insts[i].scope)).val

\* In the step, every watcher ran again exactly when an entry of its parent
\* scope that its expression reads changed, and a prop whose watcher did not
\* run kept its value.
RerunIffDependencyChanged ==
    \A k \in 1..Len(world.effects) :
        LET e == world.effects[k]
            changed == \E key \in ExprReads(e.expr) :
                          MapGet(ScopeObj(world', e.scope), key)
                             # MapGet(ScopeObj(world, e.scope), key)
        IN  /\ (k \in SeqToSet(world'.ran)) <=> changed
            /\ ~changed => MapGet(world'.insts[e.inst].data, e.prop)
                              = MapGet(world.insts[e.inst].data, e.prop)

(* C4, as claimed: for every attribute :p="expr" of a matched element,      *)
(* ChildState[p] equals the value of expr against parentScope right after   *)
(* instantiation and after every later change of parentScope, and the       *)
(* binding runs again only when an entry it reads changed.                  *)
C4_PropFollowsParent ==
    [][(lastOp'.op \in {"compile", "set"} /\ ~world'.overflow) =>
          /\ \A i \in 1..Len(world'.insts) : \A a \in DynAttrs(world', i) :
                world'.insts[i].done => InSync(world', i, a)
          /\ lastOp'.op = "set" => RerunIffDependencyChanged]_vars

(* C4, amended: the same for every attribute :p="expr" whose p is not       *)
(* `emit` and which has no static attribute named p on the same element,    *)
(* whenever expr evaluates without throwing.                                *)
C4_PropFollowsParentUnlessShadowed ==
    [][(lastOp'.op \in {"compile", "set"} /\ ~world'.overflow) =>
          /\ \A i \in 1..Len(world'.insts) : \A a \in DynAttrs(world', i) :
                (/\ world'.insts[i].done
                 /\ slice(a.name, 1) # EMIT
                 /\ ~HasAttr(world'.nodes, ElOf(world', i), slice(a.name, 1)))
                => InSync(world', i, a)
          /\ lastOp'.op = "set" => RerunIffDependencyChanged]_vars

\* After the parent set a key, a prop bound to it holds the new value and a
\* watcher of another key did not run.
C4_Witness ==
    /\ lastOp.op = "set" /\ lastOp.name = <<"a">>
    /\ Len(world.effects) = 2 /\ Len(world.ran) = 1
    /\ \E i \in Insts :
          /\ world.insts[i].scope = 0
          /\ MapGet(world.insts[i].data, <<"p">>) = lastOp.args[1]

----------------------------------------------------------------------------
(* Class and style merging *)

NextClass ==
    \/ phase = "setup" /\ RegisterComponent(TreeNames, ClassDefs)
    \/ HostCompile(ClassDocs)

SpecClass == InitProps /\ [][NextClass]_vars

\* The root element of a definition's template, as written.
TemplateRoot(def) == Head(SelectSeq(trim(def.template), LAMBDA it : it.type = "element"))
ItemAttr(item, name) ==
    IF \E k \in 1..Len(item.attrs) : item.attrs[k].name = name
    THEN item.attrs[CHOOSE k \in 1..Len(item.attrs) : item.attrs[k].name = name].value
    ELSE <<>>

\* The white-space separated, non-empty tokens of a string.
WsTokens(chars) == SeqToSet(tokensFrom(chars, <<>>, <<>>))

(* C8: for every class value on a matched element the replacement root's   *)
(* class set is the template root's classes united with the non-empty      *)
(* white-space separated tokens of the value; a style value is appended to *)
(* the template root's style text.                                         *)
C8_ClassAndStyleAreAdditive ==
    AfterCompile =>
      \A j \in Hooks :
        (MatchedHook(j) /\ RootCount(DefOfHook(j)) = 1) =>
          LET el == world.hooks[j].el
              root == TemplateRoot(DefOfHook(j))
          IN  /\ HasAttr(world.nodes, el, CLASS) =>
                    \E i \in InstsOf(el) :
                       /\ InTree(world.insts[i].root)
                       /\ SeqToSet(classList(world.nodes, world.insts[i].root))
                            = WsTokens(ItemAttr(root, CLASS))
                                \cup WsTokens(getAttr(world.nodes, el, CLASS))
              /\ HasAttr(world.nodes, el, STYLE) =>
                    \E i \in InstsOf(el) :
                       /\ InTree(world.insts[i].root)
                       /\ getAttr(world.nodes, world.insts[i].root, STYLE)
                            = ItemAttr(root, STYLE) \o <<";">> \o getAttr(world.nodes, el, STYLE)

(* C11: whatever attributes a matched element carries (a static attribute  *)
(* named emit, a reactive :emit, a class value that is empty or has         *)
(* consecutive spaces), no exception leaves the hook: it runs to its end    *)
(* and returns false.                                                       *)
C11_HookNeverRaises ==
    AfterCompile =>
       \A j \in Hooks :
          MatchedHook(j) => /\ world.hooks[j].ret = "false"
                            /\ "Zog Error" \notin SeqToSet(world.errors)

----------------------------------------------------------------------------
(* Termination *)

\* The registered names the tags of a template derive (root included).
RECURSIVE NamesIn(_, _)
NamesIn(reg, items) ==
    UNION { IF items[k].type = "element"
            THEN ({componentNameOf(items[k].tag)} \cap DOMAIN reg)
                    \cup NamesIn(reg, items[k].kids)
            ELSE {} : k \in 1..Len(items) }

\* The names instantiating n leads to, in at most k steps of "the template
\* of one holds a tag of the other".
RECURSIVE LeadsTo(_, _, _)
LeadsTo(reg, n, k) ==
    IF k = 0 THEN {}
    ELSE LET direct == NamesIn(reg, trim(reg[n].template))
         IN  direct \cup UNION { LeadsTo(reg, m, k - 1) : m \in direct }

\* A component whose instantiation leads to itself.
SelfContaining(reg) ==
    \E n \in DOMAIN reg : n \in LeadsTo(reg, n, Cardinality(DOMAIN reg))

(* C12: the compilation the host starts terminates after finitely many     *)
(* hook invocations, also when a template holds its own tag or two         *)
(* templates hold each other, given single-root templates: the             *)
(* instantiations of one compilation stay within the bound.                *)
C12_CompilationTerminates ==
    (/\ lastOp.op = "compile"
     /\ \A k \in DOMAIN componentRegistry : RootCount(componentRegistry[k]) = 1)
    => ~world.overflow

\* The bound is hit only by registries in which a template leads back to
\* its own name.
OverflowOnlyWhenSelfContaining ==
    (lastOp.op = "compile" /\ world.overflow) => SelfContaining(componentRegistry)

----------------------------------------------------------------------------
(* Slot projection *)

\* The template of instance i as line 60 parsed it: the same nodes, numbered
\* from 1; the heap holds them SlotShift(i) further on.
Parsed(i) == Build(<<>>, Elem(DIV, <<>>, trim(world.insts[i].def.template)), 0)
ParsedRoot(i) == firstElementChild(Parsed(i), 1)
ParsedSlot(i) == querySelectorSlot(Parsed(i), ParsedRoot(i))
SlotShift(i) == world.insts[i].root - ParsedRoot(i)

Shifted(seq, d) == [k \in 1..Len(seq) |-> seq[k] + d]

\* The child list the slot's parent should have: the slot's template
\* siblings with the element's original children in the slot's place.
ExpectedAroundSlot(i) ==
    LET L == Parsed(i)
        sibs == L[L[ParsedSlot(i)].parent].kids
        at == IndexOf(sibs, ParsedSlot(i))
    IN  Shifted(SubSeq(sibs, 1, at - 1), SlotShift(i))
           \o world.insts[i].kids
           \o Shifted(SubSeq(sibs, at + 1, Len(sibs)), SlotShift(i))

\* Node m stands where node n was expected: it is n, or the replacement
\* root of an instance made for n.
StandsFor(m, n) ==
    m = n \/ \E i \in Insts : world.insts[i].el = n /\ world.insts[i].root = m

(* C13: after instantiation with a template that holds a slot, the         *)
(* element's original children stand at the slot's former position, in     *)
(* their original order, each exactly once, and the slot is out of the     *)
(* tree; with a template without slot, none of the original children is in *)
(* the tree and none was compiled.                                         *)
C13_SlotProjectionKeepsOrder ==
    AfterCompile =>
       \A i \in Insts :
          world.insts[i].done =>
             IF ParsedSlot(i) # 0
             THEN LET slot == ParsedSlot(i) + SlotShift(i)
                      parent == Parsed(i)[ParsedSlot(i)].parent + SlotShift(i)
                      now == world.nodes[parent].kids
                      want == ExpectedAroundSlot(i)
                  IN  /\ ~InTree(slot)
                      /\ Len(now) = Len(want)
                      /\ \A k \in 1..Len(want) : StandsFor(now[k], want[k])
             ELSE \A c \in SeqToSet(world.insts[i].kids) :
                     /\ ~InTree(c)
                     /\ \A k \in 1..Len(world.compiled) : world.compiled[k].node # c
                     /\ \A j \in Hooks : world.hooks[j].el # c

----------------------------------------------------------------------------
(* Inline-expression listeners *)

INCR_N == <<"n", "+", "=", "1">>

(* C14: when the element has @e="n += 1" and n is a number of the parent   *)
(* scope, not a function, every call emit(e) leaves the parent scope with  *)
(* n one greater than before the call.                                     *)
C14_InlineExpressionUpdatesParent ==
    [][lastOp'.op = "emit" =>
        LET i == lastOp'.inst
            el == ElOf(world, i)
            sc == world.insts[i].scope
        IN  (/\ HasAttr(world.nodes, el, At(lastOp'.name))
             /\ getAttr(world.nodes, el, At(lastOp'.name)) = INCR_N
             /\ MapGet(ScopeObj(world, sc), <<"n">>).t = "number")
            => MapGet(ScopeObj(world', sc), <<"n">>)
                  = Num(MapGet(ScopeObj(world, sc), <<"n">>).n + 1)]_vars

----------------------------------------------------------------------------
(* A prop binding whose expression throws *)

\* The root scope has the string a; u is undefined at first in one start
\* and a string in the other, so that u.x throws or evaluates.
BindRoots == { <<"a">> :> Str(<<"H">>),
               (<<"a">> :> Str(<<"H">>)) @@ (<<"u">> :> Str(<<"H">>)) }
BindKeys == {<<"a">>, <<"u">>}
BindVals == {Str(<<"H">>), Str(<<"A">>), Undefined}
U_X == <<"u", ".", "x">>
BindAttrs ==
    { Attr(Colon(<<"p">>), U_X), Attr(Colon(<<"q">>), <<"a">>), Attr(<<"r">>, <<"k">>),
      Attr(At(<<"e">>), <<"h">>), Attr(STYLE, <<"s">>) }
BindDocs ==
    { <<Elem(zc, attrs, <<>>), Elem(SPAN, <<>>, <<>>)>> : attrs \in AttrSeqs(BindAttrs, MaxAttrs) }

InitBind == InitWith(BindRoots)

NextBind ==
    \/ phase = "setup" /\ RegisterComponent(TreeNames, PropDefs)
    \/ HostCompile(BindDocs)
    \/ SetParent(BindKeys, BindVals)

SpecBind == InitBind /\ [][NextBind]_vars

InTreeOf(W, n) == n \in SeqToSet(Descendants(W.nodes, 1))

\* Attribute a's expression throws against the parent scope of instance i.
Throws(W, i, a) == ~evalExp(a.value, ScopeObj(W, W.insts[i].scope)).ok

\* The watchers made for prop p of instance i.
EffectsOf(W, i, p) ==
    {k \in 1..Len(W.effects) : W.effects[k].inst = i /\ W.effects[k].prop = p}

\* Attribute b of the element of instance i took effect.
Wired(W, i, b) ==
    IF startsWith(b.name, <<":">>) THEN InSync(W, i, b)
    ELSE IF startsWith(b.name, <<"@">>)
    THEN MapGet(W.insts[i].listeners, slice(b.name, 1)) = b.value
    ELSE IF b.name = STYLE
    THEN getAttr(W.nodes, W.insts[i].root, STYLE)
            = ItemAttr(TemplateRoot(W.insts[i].def), STYLE) \o <<";">> \o b.value
    ELSE MapGet(W.insts[i].data, b.name) = Str(b.value)

(* C15: when the expression of a binding :p throws against the parent      *)
(* scope, the error is caught and logged, p is not assigned (unset after    *)
(* the first evaluation, its previous value after a later one), every      *)
(* other attribute of the element is wired, the element is replaced and    *)
(* its root compiled, and the binding runs again when an entry it reads    *)
(* changes.                                                                *)
C15_ThrowingBindingIsContained ==
    [][(lastOp'.op \in {"compile", "set"} /\ ~world'.overflow) =>
        \A i \in 1..Len(world'.insts) : \A a \in DynAttrs(world', i) :
           LET prop == slice(a.name, 1)
               el == ElOf(world', i)
               ranNow == \E k \in EffectsOf(world', i, prop) : k \in SeqToSet(world'.ran)
           IN  /\ Throws(world', i, a) =>
                    /\ ranNow => "Prop Error" \in SeqToSet(world'.errors)
                    /\ "Zog Error" \notin SeqToSet(world'.errors)
                    /\ IF lastOp'.op = "compile"
                       THEN prop \notin DOMAIN world'.insts[i].data
                       ELSE /\ (prop \in DOMAIN world'.insts[i].data)
                                  <=> (prop \in DOMAIN world.insts[i].data)
                            /\ MapGet(world'.insts[i].data, prop)
                                  = MapGet(world.insts[i].data, prop)
                    /\ \A b \in SeqToSet(world'.nodes[el].attrs) \ {a} : Wired(world', i, b)
                    /\ world'.insts[i].done
                    /\ ~InTreeOf(world', el)
                    /\ InTreeOf(world', world'.insts[i].root)
                    /\ lastOp'.op = "compile" =>
                          \E c \in 1..Len(world'.compiled) :
                             /\ world'.compiled[c].node = world'.insts[i].root
                             /\ world'.compiled[c].scope = i
               /\ (/\ lastOp'.op = "set"
                   /\ Throws(world, i, a)
                   /\ lastOp'.name \in ExprReads(a.value)) => ranNow]_vars

\* An element with :p="u.x" and :q="a": the first evaluation of p threw and
\* p is still unset, the instance is complete, and after the parent wrote a
\* the prop q holds the new value.
C15_Witness ==
    /\ lastOp.op = "set" /\ lastOp.name = <<"a">>
    /\ \E i \in Insts :
          /\ world.nodes[ElOf(world, i)].attrs
                = <<Attr(Colon(<<"p">>), U_X), Attr(Colon(<<"q">>), <<"a">>)>>
          /\ world.insts[i].done
          /\ <<"p">> \notin DOMAIN world.insts[i].data
          /\ MapGet(world.insts[i].data, <<"q">>) = lastOp.args[1]

----------------------------------------------------------------------------
(* Registration interleaved with compilation *)

MixNames == {<<"c">>, <<"C">>}
MixDefs == {Def(T_plain), Def(T_div), NoTemplate}
MixDocs == { <<Elem(zc, <<>>, <<>>)>>, <<Elem(<<"C">>, <<>>, <<>>)>>,
             <<Elem(SPAN, <<>>, <<>>)>> }

NextMix ==
    \/ RegisterComponent(MixNames, MixDefs)
    \/ HostCompile(MixDocs)
    \/ HostCompileMore(MixDocs)

SpecMix == Init /\ [][NextMix]_vars

(* C16: every valid registerComponent(name, d) leaves the registry with d   *)
(* under the lower-cased name and every other entry as it was, so each key  *)
(* holds the most recent valid registration of a name equal to it up to     *)
(* letter case; a registration changes no instance; and every instance a    *)
(* compilation creates has the definition the registry holds at that time,  *)
(* while the instances made before stay as they are.                        *)
C16_LastValidRegistrationWins ==
    [][/\ lastOp'.op = "register" =>
            /\ world' = world
            /\ IF lastOp'.flag THEN componentRegistry' = componentRegistry
               ELSE /\ DOMAIN componentRegistry'
                         = DOMAIN componentRegistry \cup {toLowerCase(lastOp'.name)}
                    /\ componentRegistry'[toLowerCase(lastOp'.name)] = lastOp'.args[1]
                    /\ \A k \in DOMAIN componentRegistry \ {toLowerCase(lastOp'.name)} :
                          componentRegistry'[k] = componentRegistry[k]
       /\ (lastOp'.op = "compile" /\ ~world'.overflow) =>
            /\ Len(world'.insts) >= Len(world.insts)
            /\ \A i \in 1..Len(world'.insts) :
                  IF i <= Len(world.insts)
                  THEN /\ world'.insts[i] = world.insts[i]
                       /\ world'.nodes[world.insts[i].root] = world.nodes[world.insts[i].root]
                  ELSE world'.insts[i].def
                          = componentRegistry[componentNameOf(world'.nodes[ElOf(world', i)].tag)]]_vars

\* A compilation after an overwrite: the first instance, made for <z-c>,
\* still has the earlier definition; the new one, made for <C>, has the
\* definition registered since.
C16_Witness ==
    /\ lastOp.op = "compile" /\ Len(world.insts) = 2
    /\ world.nodes[ElOf(world, 1)].tag = zc
    /\ world.nodes[ElOf(world, 2)].tag = <<"C">>
    /\ world.insts[1].def # world.insts[2].def
    /\ world.insts[2].def = componentRegistry[<<"c">>]
    /\ InTree(world.insts[1].root) /\ InTree(world.insts[2].root)

----------------------------------------------------------------------------
(* The hook's return value *)

(* C17: on a text node and on an element whose derived name is not         *)
(* registered the hook returns a value other than false, creates no        *)
(* ChildState and leaves the tree, the parent scope and the effect lists   *)
(* as they were; and the hook returns false exactly when the derived name  *)
(* is registered.                                                          *)
C17_FalseExactlyWhenRegistered ==
    AfterCompile =>
       \A j \in Hooks :
          /\ ~MatchedHook(j) =>
                /\ world.hooks[j].ret \in {"undefined", "true"}
                /\ world.hooks[j].inst = 0
                /\ world.hooks[j].same
          /\ (world.hooks[j].ret = "false") <=> MatchedHook(j)

----------------------------------------------------------------------------
(* Several installations *)

TwoDefs == {Def(T_plain), Def(T_div)}
TwoDocs == { <<Elem(zc, <<>>, <<>>)>>, <<Elem(zb, <<>>, <<>>)>> }
TwoTags == {<<"c">>, zc, <<"b">>, zb, SPAN}

NextInstalls ==
    \/ RegisterComponent(TreeNames, TwoDefs)
    \/ Install
    \/ RegisterComponentOn(TreeNames, TwoDefs)
    \/ HostCompile(TwoDocs)

SpecInstalls == Init /\ [][NextInstalls]_vars

\* The registry the hook of installation k looks names up in.
RegistryOf(reg, more, k) == AllMaps(reg, more)[mapOf(k)]

Installed == 1..(Len(others) + 1)

(* C18: the registry an installation's hook reads changes only by a         *)
(* registerComponent call made through that installation, so no call on     *)
(* another installation changes how its hook resolves any tag; a fresh      *)
(* installation matches no name; and the first installation's hook leaves   *)
(* alone every tag whose name was registered through another installation   *)
(* only.                                                                    *)
C18_RegistriesAreIsolated ==
    [][/\ \A k \in Installed :
            LET own == \/ k = 1 /\ lastOp'.op = "register"
                       \/ lastOp'.op = "registerOn" /\ lastOp'.inst = k
            IN  ~own =>
                  /\ RegistryOf(componentRegistry', others', k)
                        = RegistryOf(componentRegistry, others, k)
                  /\ \A t \in TwoTags :
                        Resolution(RegistryOf(componentRegistry', others', k), t)
                          = Resolution(RegistryOf(componentRegistry, others, k), t)
       /\ lastOp'.op = "install" =>
            \A t \in TwoTags :
               ~Resolution(RegistryOf(componentRegistry', others', lastOp'.inst), t).matched
       /\ lastOp'.op = "compile" =>
            \A j \in 1..Len(world'.hooks) :
               LET n == componentNameOf(world'.nodes[world'.hooks[j].el].tag)
               IN  n \notin DOMAIN RegistryOf(componentRegistry, others, 1)
                     => world'.hooks[j].ret = "true"]_vars

\* Both installations registered c, with different definitions, and b was
\* registered through the second only: the first installation's hook left
\* <z-b> alone.
C18_Witness ==
    /\ lastOp.op = "compile" /\ Len(others) >= 1
    /\ <<"b">> \in DOMAIN others[1] /\ <<"b">> \notin DOMAIN componentRegistry
    /\ <<"c">> \in DOMAIN others[1] /\ <<"c">> \in DOMAIN componentRegistry
    /\ others[1][<<"c">>] # componentRegistry[<<"c">>]
    /\ world.nodes[2].tag = zb
    /\ \E j \in Hooks : world.hooks[j].el = 2 /\ world.hooks[j].ret = "true"
    /\ world.insts = <<>>

----------------------------------------------------------------------------
(* The emit capability *)

\* The root scope has the string a and the function h.  The document is
\* <z-c ...> followed by <z-b @f="h">; the template of c may hold a <z-b>
\* that relays its event e to c's emit.
CapRoot == (<<"a">> :> Str(<<"H">>)) @@ (<<"h">> :> Fn(<<"h">>))
CapAttrs ==
    { Attr(EMIT, <<"k">>), Attr(Colon(EMIT), <<"a">>), Attr(Colon(<<"p">>), <<"a">>),
      Attr(At(<<"e">>), <<"h">>) }
CapDocs ==
    { <<Elem(zc, attrs, <<>>), Elem(zb, <<Attr(At(<<"f">>), <<"h">>)>>, <<>>)>> :
         attrs \in AttrSeqs(CapAttrs, MaxAttrs) }
CapEvents == {<<"e">>, <<"f">>}
CapArgs == {<<>>, <<Str(<<"e">>)>>}

InitCap == InitWith({CapRoot})

NextCap ==
    \/ phase = "setup" /\ RegisterComponent(TreeNames, EmitDefs)
    \/ HostCompile(CapDocs)
    \/ SetParent({<<"a">>}, PropVals)
    \/ Emit(CapEvents, CapArgs)

SpecCap == InitCap /\ [][NextCap]_vars

\* The function a listener descriptor names: the descriptor itself, or the
\* function an inline call f() or f($event) calls.
CalleeOf(code) == IF Len(code) > 1 /\ code[2] = "(" THEN <<code[1]>> ELSE code

(* C19: in every state, the emit entry of every ChildState is the emit      *)
(* closure the hook installed for that instance, whatever static emit       *)
(* attribute, :emit binding or later re-evaluation there was; and a call    *)
(* of an instance's emit looks only into that instance's listener map and   *)
(* calls only into that instance's parent scope, changing no ChildState     *)
(* and no listener map.                                                     *)
C19_EmitCapabilityIsFixed ==
    [][/\ \A i \in 1..Len(world'.insts) :
            /\ EMIT \in DOMAIN world'.insts[i].data
            /\ world'.insts[i].data[EMIT] = EmitOf(i)
       /\ lastOp'.op = "emit" =>
            LET i == lastOp'.inst
                e == lastOp'.name
                own == world.insts[i].listeners
            IN  /\ world'.insts = world.insts
                /\ e \notin DOMAIN own => world'.calls = <<>>
                /\ world'.calls # <<>> =>
                      /\ world'.calls[1].scope = world.insts[i].scope
                      /\ world'.calls[1].fn = CalleeOf(own[e])]_vars

\* The parent wrote a, the watcher of a binding :emit="a" ran again and was
\* refused, and the instance's emit is still its own closure.
C19_Witness ==
    /\ lastOp.op = "set"
    /\ \E k \in SeqToSet(world.ran) :
          /\ world.effects[k].prop = EMIT
          /\ world.insts[world.effects[k].inst].done
          /\ world.insts[world.effects[k].inst].data[EMIT] = EmitOf(world.effects[k].inst)
    /\ "Prop Error" \in SeqToSet(world.errors)

====
